---- MODULE Spec2Model ----
(***************************************************************************)
(* SeasonalCanvas (src/unnamed/part_002): the particle field drawn behind  *)
(* the player.  One React effect per season value owns a closure with the  *)
(* active particle array, the landed-leaf array and the surface size; the  *)
(* animate function runs once per display frame, the resize listener runs  *)
(* on window resize, the effect's cleanup runs on season change / unmount. *)
(*                                                                         *)
(* Numbers.  Coordinates, velocities, sizes and angles are JavaScript      *)
(* doubles; the model keeps them as integers in hundredths (1 px = 100,    *)
(* life 1.0 = 100, 0.03 = 3, gravity 0.1 = 10).  Window sizes are whole    *)
(* pixels.  Math.random() is a 15-bit linear congruential stream whose     *)
(* state is the variable rng; a draw yields u/256 with u in 0..255, so     *)
(* every draw lies in [0,1) as in the source.                              *)
(***************************************************************************)
EXTENDS Integers, Sequences, FiniteSets, TLC

VARIABLES
    season,       \* the season prop of the rendered component
    canvasOk,     \* canvasRef.current and its 2d context both exist
    innerWidth,   \* window.innerWidth  (px)
    innerHeight,  \* window.innerHeight (px)
    canvas,       \* <<canvas.width, canvas.height>> as last written by resize
    ctx,          \* the calls made on the 2d context since the surface was blank
    effects,      \* effect instance id -> its closure (reachable ones only)
    live,         \* id of the effect instance of the current render, 0 if none
    listeners,    \* effect instances whose resize is registered on window
    raf,          \* pending requestAnimationFrame callbacks [id, inst]
    nextRafId,    \* the id the next requestAnimationFrame call returns
    rng,          \* state of the Math.random() stream
    pc,           \* position in the component's lifecycle
    fuel,         \* exploration budget left
    hist          \* the last step taken and what the closure held before it

vars == <<season, canvasOk, innerWidth, innerHeight, canvas, ctx, effects, live,
          listeners, raf, nextRafId, rng, pc, fuel, hist>>

----------------------------------------------------------------------------
(* Bounds of the exploration. *)

\* Total budget of a behaviour: a frame costs 1, an environment event EventCost.
Fuel == 40
EventCost == 32
\* Number of different Math.random() seeds tried.
NumSeeds == 1
\* A frame is explored only while the active set is at most this long.
MaxParticles == 500
\* The window sizes tried (px): a degenerate 0 x 0 window, a small one, a tall one.
SmallWidth == 3
SmallHeight == 2
LargeWidth == 40
LargeHeight == 2000

Seeds == 1..NumSeeds
Dims == {<<0, 0>>, <<SmallWidth, SmallHeight>>, <<LargeWidth, LargeHeight>>}

----------------------------------------------------------------------------
(* types.ts *)

Spring == "Spring"
Summer == "Summer"
Autumn == "Autumn"
Winter == "Winter"
Season == {Spring, Summer, Autumn, Winter}

\* p.f of an optional field, JavaScript's `p.f || 0`
OrZero(p, f) == IF f \in DOMAIN p THEN p[f] ELSE 0

\* {...p, f: v}
With(p, f, v) == (f :> v) @@ p

----------------------------------------------------------------------------
(* Math.random and the random(min, max) helper *)

NextRng(s) == (s * 20077 + 12345) % 32768

\* <<a, c>> with: k draws take the stream from state s to (a * s + c) % 32768
\* (the k-fold composition of NextRng, by halving k)
RECURSIVE Jump(_)
Jump(k) ==
    IF k = 0 THEN <<1, 0>>
    ELSE LET h == Jump(k \div 2)
             a2 == (h[1] * h[1]) % 32768
             c2 == (h[1] * h[2] + h[2]) % 32768
         IN  IF k % 2 = 0 THEN <<a2, c2>>
             ELSE <<(20077 * a2) % 32768, (20077 * c2 + 12345) % 32768>>

\* state of the stream after k draws
Rnd(s, k) == LET j == Jump(k) IN (j[1] * s + j[2]) % 32768

\* the value u (of u/256) delivered by the draw that left the stream in state s
MathRandom(s) == s \div 128

\* Math.random() * n, in hundredths, n in whole units
Times(s, n) == (MathRandom(s) * n * 100) \div 256

\* random(min, max) without its "+ min"
randomNoMin(s, min, max) == Times(s, max - min)

\* random(min, max) = Math.random() * (max - min) + min, in hundredths
random(s, min, max) == Times(s, max - min) + min * 100

\* Math.floor of a value in hundredths, in whole units
Floor(c) == c \div 100

----------------------------------------------------------------------------
(* initParticle: draws its fields in the order of the object literal.      *)
(* Returns the particle and the state of the stream after its draws.       *)

initParticle(type, width, height, s) ==
    LET s1 == NextRng(s)
        s2 == NextRng(s1)
        s3 == NextRng(s2)
        s4 == NextRng(s3)
        s5 == NextRng(s4)
        s6 == NextRng(s5)
        s7 == NextRng(s6)
        s8 == NextRng(s7)
        s9 == NextRng(s8)
        x == Times(s1, width)
        y == Times(s2, height) - height * 100      \* start above
    IN  CASE type = "snow" ->
               [p |-> [x |-> x, y |-> y,
                       vx |-> random(s3, -1, 1), vy |-> random(s4, 1, 3),
                       size |-> random(s5, 2, 5),
                       color |-> <<255, 255, 255, 80>>, type |-> "snow"],
                rng |-> s5]
          [] type = "rain" ->
               [p |-> [x |-> x, y |-> y,
                       vx |-> 0, vy |-> random(s3, 10, 15),
                       size |-> random(s4, 10, 20),
                       color |-> <<173, 216, 230, 60>>, type |-> "rain"],
                rng |-> s4]
          [] type = "petal" ->
               [p |-> [x |-> x, y |-> y,
                       vx |-> random(s3, -2, 2), vy |-> random(s4, 1, 3),
                       size |-> random(s5, 3, 7),
                       rotation |-> random(s6, 0, 360),
                       rotationSpeed |-> random(s7, -2, 2),
                       color |-> <<255, Floor(random(s8, 182, 220)),
                                   Floor(random(s9, 193, 225)), 80>>,
                       type |-> "petal"],
                rng |-> s9]
          [] OTHER ->                                \* leaf
               [p |-> [x |-> x, y |-> y,
                       vx |-> random(s3, -3, 3), vy |-> random(s4, 1, 4),
                       size |-> random(s5, 8, 14),
                       rotation |-> random(s6, 0, 360),
                       rotationSpeed |-> random(s7, -3, 3),
                       color |-> <<Floor(random(s8, 200, 255)),
                                   Floor(random(s9, 100, 165)), 0, 90>>,
                       type |-> "leaf"],
                rng |-> s9]

----------------------------------------------------------------------------
(* createFirework: count sparks on a circle around (x, y), appended to the *)
(* active set.  Spark i draws its speed, then its size.                    *)

count == 12

\* 100 * cos and 100 * sin of 2 * pi * i / 12
Cos100(i) == <<100, 87, 50, 0, -50, -87, -100, -87, -50, 0, 50, 87>>[i + 1]
Sin100(i) == Cos100((i + 9) % 12)

\* a spark pushed without its life field
SparkNoLife(i, x, y, s) ==
    LET speed == random(Rnd(s, 2 * i + 1), 1, 4)
    IN  [x |-> x, y |-> y,
         vx |-> (Cos100(i) * speed) \div 100,
         vy |-> (Sin100(i) * speed) \div 100,
         size |-> random(Rnd(s, 2 * i + 2), 2, 4),
         color |-> <<255, 255, 255, 100>>,
         type |-> "firework"]

Spark(i, x, y, s) ==
    LET speed == random(Rnd(s, 2 * i + 1), 1, 4)
    IN  [x |-> x, y |-> y,
         vx |-> (Cos100(i) * speed) \div 100,
         vy |-> (Sin100(i) * speed) \div 100,
         size |-> random(Rnd(s, 2 * i + 2), 2, 4),
         color |-> <<255, 255, 255, 100>>,
         life |-> 100,
         type |-> "firework"]

\* createFirework with the push left out: no spark is appended
createFireworkNoPush(particles, x, y, s) ==
    [particles |-> particles, rng |-> Rnd(s, 2 * count)]

\* createFirework with its two coordinates exchanged
createFireworkSwapped(particles, x, y, s) ==
    [particles |-> particles \o [k \in 1..count |-> Spark(k - 1, y, x, s)],
     rng |-> Rnd(s, 2 * count)]

\* createFirework with its loop one iteration short
createFireworkShort(particles, x, y, s) ==
    [particles |-> particles \o [k \in 1..(count - 1) |-> Spark(k - 1, x, y, s)],
     rng |-> Rnd(s, 2 * (count - 1))]

createFirework(particles, x, y, s) ==
    [particles |-> particles \o [k \in 1..count |-> Spark(k - 1, x, y, s)],
     rng |-> Rnd(s, 2 * count)]

----------------------------------------------------------------------------
(* fillParticles: the initial fill *)

\* Count without the Autumn branch of lines 112-114
CountNoAutumn(s) == IF s = Summer THEN 100 ELSE 150

\* the count chosen at lines 109-114
Count(s) == IF s = Summer THEN 100 ELSE IF s = Autumn THEN 50 ELSE 150

\* a typeMap that does not look at the season
FillTypeSnow(s) == "snow"

\* typeMap of fillParticles
FillType(s) ==
    CASE s = Spring -> "petal" [] s = Summer -> "rain"
      [] s = Autumn -> "leaf"  [] OTHER -> "snow"

\* one iteration without the y override: the particle keeps the factory's y
FillStepAbove(st, s, width, height) ==
    LET ip == initParticle(FillType(s), width, height, st.rng)
    IN  [particles |-> Append(st.particles, ip.p), rng |-> NextRng(ip.rng)]

\* one iteration of the for loop: push {...initParticle(type), y: random * height}
FillStep(st, s, width, height) ==
    LET ip == initParticle(FillType(s), width, height, st.rng)
        sy == NextRng(ip.rng)
    IN  [particles |-> Append(st.particles, With(ip.p, "y", Times(sy, height))),
         rng |-> sy]

\* iterations lo..hi of the for loop, in order.  The range is split in halves
\* only to keep the evaluation shallow; the test on first.rng is always true
\* and makes the first half's result a value before the second half starts.
RECURSIVE FillLoop(_, _, _, _, _, _)
FillLoop(lo, hi, st, s, width, height) ==
    IF lo > hi THEN st
    ELSE IF lo = hi THEN FillStep(st, s, width, height)
    ELSE LET mid == (lo + hi) \div 2
             first == FillLoop(lo, mid, st, s, width, height)
         IN  IF first.rng >= 0
             THEN FillLoop(mid + 1, hi, first, s, width, height)
             ELSE first

\* the closure c after fillParticles(), and the stream after it
fillParticles(c, s) ==
    LET r == FillLoop(1, Count(c.season), [particles |-> <<>>, rng |-> s],
                      c.season, c.width, c.height)
    IN  [c |-> [c EXCEPT !.particles = r.particles, !.landedParticles = <<>>],
         rng |-> r.rng]

----------------------------------------------------------------------------
(* resize: the window's resize listener (also called once by the effect) *)

\* resize without line 28: the piled leaves are kept
resizeKeepsLeaves(c, w, h) == [c EXCEPT !.width = w, !.height = h]

\* resize with the reported size raised to at least 1 x 1
resizeClamped(c, w, h) ==
    [c EXCEPT !.width = IF w < 1 THEN 1 ELSE w,
              !.height = IF h < 1 THEN 1 ELSE h,
              !.landedParticles = <<>>]

\* resize that clears only the buffer: the new size is not recorded
resizeKeepsSize(c, w, h) == [c EXCEPT !.landedParticles = <<>>]

\* resize that clears the active set along with the buffer
resizeDropsParticles(c, w, h) ==
    [c EXCEPT !.width = w, !.height = h, !.particles = <<>>,
              !.landedParticles = <<>>]

resize(c, w, h) ==
    [c EXCEPT !.width = w, !.height = h, !.landedParticles = <<>>]

----------------------------------------------------------------------------
(* animate: one frame *)

\* the cap on accumulated leaves (line 233)
LandedLimit == 200

\* Math.sin(y * 0.01) * 0.5 in hundredths, y in hundredths of a pixel.  The
\* angle y * 0.01 rad is y px in hundredths of a radian, reduced modulo 628
\* (2 pi); the sine of a half period is Bhaskara's rational approximation.
HalfSine50(t) == (800 * t * (314 - t)) \div (492980 - 4 * t * (314 - t))
Sway(y) ==
    LET t == Floor(y) % 628
    IN  IF t <= 314 THEN HalfSine50(t) ELSE 0 - HalfSine50(t - 314)

\* particles.splice(i, 1)
Splice(particles, i) ==
    SubSeq(particles, 1, i - 1) \o SubSeq(particles, i + 1, Len(particles))

\* ctx.clearRect(0, 0, width, height)
ClearRect(width, height) ==
    [shape |-> "clearRect", x |-> width * 100, y |-> height * 100,
     from |-> "surface"]

\* save / translate(p.x, p.y) / rotate / drawParticleShape(ctx, p) / restore:
\* the shape of p's type at p's position, p taken from the given array
Draw(p, from) == [shape |-> p.type, x |-> p.x, y |-> p.y, from |-> from]

\* the landed leaves drawn newest first
DrawLandedNewestFirst(landedParticles) ==
    [k \in 1..Len(landedParticles) |->
        Draw(landedParticles[Len(landedParticles) + 1 - k], "landed")]

\* lines 177-184: the landed leaves, oldest first
DrawLanded(landedParticles) ==
    [k \in 1..Len(landedParticles) |-> Draw(landedParticles[k], "landed")]

\* the spark's removal tested before its life is decayed
StepFireworkLate(i, st) ==
    LET p == st.particles[i]
        q == [p EXCEPT !.x = p.x + p.vx, !.y = p.y + p.vy,
                       !.vy = p.vy + 10, !.life = p.life - 3]
    IN  IF p.life <= 0
        THEN [st EXCEPT !.particles = Splice(st.particles, i)]
        ELSE [st EXCEPT !.particles[i] = q]

\* lines 190-205: a firework spark
StepFirework(i, st) ==
    LET p == st.particles[i]
        life == (IF OrZero(p, "life") # 0 THEN p.life ELSE 100) - 3
        q == With([p EXCEPT !.x = p.x + p.vx, !.y = p.y + p.vy,
                            !.vy = p.vy + 10], "life", life)
    IN  IF life <= 0
        THEN [st EXCEPT !.particles = Splice(st.particles, i),
                        !.draws = Append(@, Draw(q, "active"))]
        ELSE [st EXCEPT !.particles[i] = q,
                        !.draws = Append(@, Draw(q, "active"))]

\* the physics with the season test of line 212 left out: every particle
\* tumbles and sways
FallAlwaysTumbles(p, s) ==
    LET q == [p EXCEPT !.x = p.x + p.vx, !.y = p.y + p.vy]
    IN  With([q EXCEPT !.x = q.x + Sway(q.y)], "rotation",
             OrZero(p, "rotation") + OrZero(p, "rotationSpeed"))

\* lines 207-215: standard falling physics and the season's sway
Fall(p, s) ==
    LET q == [p EXCEPT !.x = p.x + p.vx, !.y = p.y + p.vy]
    IN  IF s = Spring \/ s = Autumn
        THEN With([q EXCEPT !.x = q.x + Sway(q.y)], "rotation",
                  OrZero(p, "rotation") + OrZero(p, "rotationSpeed"))
        ELSE q

\* the wrap without line 257: only the left edge wraps
WrapXLeftOnly(p, width) ==
    [p EXCEPT !.x = IF p.x < -2000 THEN (width + 20) * 100 ELSE p.x]

\* the wrap without line 258: only the right edge wraps
WrapXRightOnly(p, width) ==
    [p EXCEPT !.x = IF p.x > (width + 20) * 100 THEN -2000 ELSE p.x]

\* lines 256-258: wrap x
WrapX(p, width) ==
    LET x1 == IF p.x > (width + 20) * 100 THEN -2000 ELSE p.x
        x2 == IF x1 < -2000 THEN (width + 20) * 100 ELSE x1
    IN  [p EXCEPT !.x = x2]

\* the last branch with a typeMap whose lookup always misses: the 'leaf'
\* fallback is taken in every season
ResetTypeFallback(s) == IF s = Summer THEN "rain" ELSE "leaf"

\* typeMap and pType of the last branch (lines 245-251)
ResetType(s) ==
    LET typeMap == CASE s = Spring -> "petal" [] s = Autumn -> "leaf"
                     [] s = Winter -> "snow"  [] OTHER -> "leaf"
    IN  IF s = Summer THEN "rain" ELSE typeMap

\* the accumulation without its limit
AccumulatesAlways(landedParticles) == TRUE

\* line 233: the accumulation limit
Accumulates(landedParticles) == Len(landedParticles) < LandedLimit

\* the copy without lines 237-238: the leaf keeps its velocity
LandedMoving(q, height, sy) ==
    With(With(q, "y", height * 100 - random(sy, 5, 15)), "landed", TRUE)

\* lines 234-240: the copy of leaf q that is left on the ground
Landed(q, height, sy) ==
    With(With(With(With(q, "y", height * 100 - random(sy, 5, 15)),
                   "vx", 0), "vy", 0), "landed", TRUE)

\* the reset as a removal: the slot is spliced out instead of reinitialized
ResetBySplice(i, q, st, s, width, height) ==
    [st EXCEPT !.particles = Splice(st.particles, i)]

\* the reset with the accumulation branch taken by every kind but rain
ResetLandsAll(i, q, st, s, width, height) ==
    IF q.type # "rain" /\ Accumulates(st.landedParticles)
    THEN LET sy == NextRng(st.rng)
             ip == initParticle(ResetType(s), width, height, sy)
         IN  [st EXCEPT !.particles[i] = ip.p,
                        !.landedParticles = Append(@, Landed(q, height, sy)),
                        !.rng = ip.rng]
    ELSE LET ip == initParticle(ResetType(s), width, height, st.rng)
         IN  [st EXCEPT !.particles[i] = ip.p, !.rng = ip.rng]

\* the reset with the burst in every branch: whatever crosses the bottom edge
\* spawns sparks
ResetAlwaysBursts(i, q, st, s, width, height) ==
    LET cf == createFirework(st.particles, q.x, (height - 2) * 100, st.rng)
        ip == initParticle(ResetType(s), width, height, cf.rng)
    IN  [st EXCEPT !.particles = [cf.particles EXCEPT ![i] = ip.p],
                   !.rng = ip.rng]

\* the reset with the landed leaf put at the front of the buffer (unshift)
ResetPrepends(i, q, st, s, width, height) ==
    IF q.type = "rain"
    THEN LET cf == createFirework(st.particles, q.x, (height - 2) * 100, st.rng)
             ip == initParticle("rain", width, height, cf.rng)
         IN  [st EXCEPT !.particles = [cf.particles EXCEPT ![i] = ip.p],
                        !.rng = ip.rng]
    ELSE IF q.type = "leaf" /\ Accumulates(st.landedParticles)
    THEN LET sy == NextRng(st.rng)
             ip == initParticle("leaf", width, height, sy)
         IN  [st EXCEPT !.particles[i] = ip.p,
                        !.landedParticles = <<Landed(q, height, sy)>> \o @,
                        !.rng = ip.rng]
    ELSE LET ip == initParticle(ResetType(s), width, height, st.rng)
         IN  [st EXCEPT !.particles[i] = ip.p, !.rng = ip.rng]

\* lines 225-254: the particle q of slot i is below the bottom edge
Reset(i, q, st, s, width, height) ==
    IF q.type = "rain"
    THEN LET cf == createFirework(st.particles, q.x, (height - 2) * 100, st.rng)
             ip == initParticle("rain", width, height, cf.rng)
         IN  [st EXCEPT !.particles = [cf.particles EXCEPT ![i] = ip.p],
                        !.rng = ip.rng]
    ELSE IF q.type = "leaf"
    THEN IF Accumulates(st.landedParticles)
         THEN LET sy == NextRng(st.rng)
                  ip == initParticle("leaf", width, height, sy)
              IN  [st EXCEPT !.particles[i] = ip.p,
                             !.landedParticles = Append(@, Landed(q, height, sy)),
                             !.rng = ip.rng]
         ELSE LET ip == initParticle("leaf", width, height, st.rng)
              IN  [st EXCEPT !.particles[i] = ip.p, !.rng = ip.rng]
    ELSE LET ip == initParticle(ResetType(s), width, height, st.rng)
         IN  [st EXCEPT !.particles[i] = ip.p, !.rng = ip.rng]

\* the loop body with sparks subject to the bottom edge: a spark that falls
\* below it is removed whatever its life
StepSparkLands(i, st, s, width, height) ==
    IF st.particles[i].type = "firework"
    THEN IF st.particles[i].y + st.particles[i].vy > height * 100
         THEN [st EXCEPT !.particles = Splice(st.particles, i),
                         !.draws = Append(@, Draw(st.particles[i], "active"))]
         ELSE StepFirework(i, st)
    ELSE LET q == Fall(st.particles[i], s)
             drawn == [st EXCEPT !.draws = Append(@, Draw(q, "active"))]
         IN  IF q.y > height * 100
             THEN Reset(i, q, drawn, s, width, height)
             ELSE [drawn EXCEPT !.particles[i] = WrapX(q, width)]

\* the loop body with the bottom-edge check ahead of the drawing: a particle
\* that crossed is reset without being drawn
StepChecksFirst(i, st, s, width, height) ==
    IF st.particles[i].type = "firework"
    THEN StepFirework(i, st)
    ELSE LET q == Fall(st.particles[i], s)
             drawn == [st EXCEPT !.draws = Append(@, Draw(q, "active"))]
         IN  IF q.y > height * 100
             THEN Reset(i, q, st, s, width, height)
             ELSE [drawn EXCEPT !.particles[i] = WrapX(q, width)]

\* the body of the for loop for index i (0-based index i - 1)
Step(i, st, s, width, height) ==
    IF st.particles[i].type = "firework"
    THEN StepFirework(i, st)
    ELSE LET q == Fall(st.particles[i], s)
             drawn == [st EXCEPT !.draws = Append(@, Draw(q, "active"))]
         IN  IF q.y > height * 100
             THEN Reset(i, q, drawn, s, width, height)
             ELSE [drawn EXCEPT !.particles[i] = WrapX(q, width)]

\* the for loop from index hi down to lo.  As in FillLoop the range is split
\* in halves to keep the evaluation shallow, the upper half running first.
RECURSIVE Loop(_, _, _, _, _, _)
Loop(lo, hi, st, s, width, height) ==
    IF lo > hi THEN st
    ELSE IF lo = hi THEN Step(lo, st, s, width, height)
    ELSE LET mid == (lo + hi) \div 2
             upper == Loop(mid + 1, hi, st, s, width, height)
         IN  IF upper.rng >= 0
             THEN Loop(lo, mid, upper, s, width, height)
             ELSE upper

\* animate with the loop stopping at i > 0: the particle of index 0 is left out
animateSkipsFirst(c, s) ==
    LET r == Loop(2, Len(c.particles),
                  [particles |-> c.particles,
                   landedParticles |-> c.landedParticles, rng |-> s,
                   draws |-> <<ClearRect(c.width, c.height)>>
                                \o DrawLanded(c.landedParticles)],
                  c.season, c.width, c.height)
    IN  [c |-> [c EXCEPT !.particles = r.particles,
                         !.landedParticles = r.landedParticles],
         rng |-> r.rng, draws |-> r.draws]

\* the closure c after animate() up to line 259, the stream after it and
\* the calls it made on the context
animate(c, s) ==
    LET r == Loop(1, Len(c.particles),
                  [particles |-> c.particles,
                   landedParticles |-> c.landedParticles, rng |-> s,
                   draws |-> <<ClearRect(c.width, c.height)>>
                                \o DrawLanded(c.landedParticles)],
                  c.season, c.width, c.height)
    IN  [c |-> [c EXCEPT !.particles = r.particles,
                         !.landedParticles = r.landedParticles],
         rng |-> r.rng, draws |-> r.draws]

----------------------------------------------------------------------------
(* The browser side: frame callbacks, listeners, unreachable closures *)

\* a cleanup that cancels nothing
cancelNothing(q, id) == q

\* a cleanup that cancels the request before the latest one
cancelPrevious(q, id) == {cb \in q : cb.id # id - 1}

\* cancelAnimationFrame(id) on the queue q of pending callbacks
cancelAnimationFrame(q, id) == {cb \in q : cb.id # id}

\* window.removeEventListener('resize', resize) of effect instance i
removeEventListener(ls, i) == ls \ {i}

\* A closure stays in memory while its effect is mounted, or its resize is
\* still registered, or one of its frame callbacks is still pending.
Kept(effs, mounted, ls, q) ==
    LET keep == {i \in DOMAIN effs :
                    i \in mounted \/ i \in ls \/ \E cb \in q : cb.inst = i}
    IN  [i \in keep |-> effs[i]]

Mounted == pc \in {"filled", "running"}

Before(op) ==
    [op |-> op,
     landed |-> IF Mounted THEN Len(effects[live].landedParticles) ELSE 0,
     active |-> IF Mounted THEN Len(effects[live].particles) ELSE 0]

----------------------------------------------------------------------------
(* The state after the component has rendered, before its effect runs *)

Init ==
    /\ season \in Season
    /\ canvasOk \in BOOLEAN
    /\ \E d \in Dims : innerWidth = d[1] /\ innerHeight = d[2]
    /\ canvas = <<300, 150>>
    /\ ctx = <<>>
    /\ effects = <<>>
    /\ live = 0
    /\ listeners = {}
    /\ raf = {}
    /\ nextRafId = 1
    /\ rng \in Seeds
    /\ pc = "rendered"
    /\ fuel = Fuel
    /\ hist = [op |-> "render", landed |-> 0, active |-> 0]

\* the effect without the two early returns of lines 13 and 15
RunEffectNoReturn ==
    /\ pc = "rendered"
    /\ hist' = [hist EXCEPT !.op = "effect"]
    /\ LET c0 == [season |-> season, width |-> innerWidth,
                  height |-> innerHeight, particles |-> <<>>,
                  landedParticles |-> <<>>, animationFrameId |-> 0]
           f == fillParticles(resize(c0, innerWidth, innerHeight), rng)
       IN  /\ live' = live + 1
           /\ effects' = (live' :> f.c) @@ effects
           /\ listeners' = listeners \cup {live'}
           /\ canvas' = <<innerWidth, innerHeight>>
           /\ ctx' = <<>>
           /\ rng' = f.rng
           /\ pc' = "filled"
    /\ UNCHANGED <<season, canvasOk, innerWidth, innerHeight, raf, nextRafId,
                   fuel>>

\* lines 11-131: the effect up to and including fillParticles(); without a
\* canvas or a 2d context it returns at line 13 or 15
RunEffect ==
    /\ pc = "rendered"
    /\ hist' = [hist EXCEPT !.op = "effect"]
    /\ IF canvasOk
       THEN LET c0 == [season |-> season, width |-> innerWidth,
                       height |-> innerHeight, particles |-> <<>>,
                       landedParticles |-> <<>>, animationFrameId |-> 0]
                f == fillParticles(resize(c0, innerWidth, innerHeight), rng)
            IN  /\ live' = live + 1
                /\ effects' = (live' :> f.c) @@ effects
                /\ listeners' = listeners \cup {live'}
                /\ canvas' = <<innerWidth, innerHeight>>
                /\ ctx' = <<>>
                /\ rng' = f.rng
                /\ pc' = "filled"
       ELSE /\ pc' = "idle"
            /\ UNCHANGED <<live, effects, listeners, canvas, ctx, rng>>
    /\ UNCHANGED <<season, canvasOk, innerWidth, innerHeight, raf, nextRafId,
                   fuel>>

\* animate() of effect instance i, ending with requestAnimationFrame(animate)
RunAnimate(i) ==
    LET a == animate(effects[i], rng)
    IN  /\ Len(effects[i].particles) <= MaxParticles
        /\ fuel >= 1
        /\ fuel' = fuel - 1
        /\ effects' = [effects EXCEPT
                          ![i] = [a.c EXCEPT !.animationFrameId = nextRafId]]
        /\ rng' = a.rng
        /\ ctx' = a.draws
        /\ nextRafId' = nextRafId + 1
        /\ hist' = Before("animate")
        /\ UNCHANGED <<season, canvasOk, innerWidth, innerHeight, canvas,
                       live, listeners>>

\* line 264: the effect's own first call
AnimateFirst ==
    /\ pc = "filled"
    /\ RunAnimate(live)
    /\ raf' = raf \cup {[id |-> nextRafId, inst |-> live]}
    /\ pc' = "running"

\* a display frame: the browser runs a pending callback
Frame(cb) ==
    /\ pc \in {"running", "idle", "unmounted"}
    /\ RunAnimate(cb.inst)
    /\ raf' = (raf \ {cb}) \cup {[id |-> nextRafId, inst |-> cb.inst]}
    /\ UNCHANGED pc

\* the window is resized to w x h: every registered listener runs (assigning
\* canvas.width or canvas.height leaves the surface blank)
WindowResize(w, h) ==
    /\ pc \in {"running", "idle", "unmounted"}
    /\ fuel >= EventCost
    /\ fuel' = fuel - EventCost
    /\ innerWidth' = w
    /\ innerHeight' = h
    /\ effects' = [i \in DOMAIN effects |->
                     IF i \in listeners THEN resize(effects[i], w, h)
                     ELSE effects[i]]
    /\ canvas' = IF listeners # {} THEN <<w, h>> ELSE canvas
    /\ ctx' = IF listeners # {} THEN <<>> ELSE ctx
    /\ hist' = Before("resize")
    /\ UNCHANGED <<season, canvasOk, live, listeners, raf, nextRafId, rng, pc>>

\* lines 266-269: the cleanup the effect returned (none without a canvas)
Cleanup ==
    IF pc = "running"
    THEN /\ raf' = cancelAnimationFrame(raf, effects[live].animationFrameId)
         /\ listeners' = removeEventListener(listeners, live)
         /\ effects' = Kept(effects, {}, listeners', raf')
    ELSE UNCHANGED <<raf, listeners, effects>>

\* the host renders the component with another season: React runs the old
\* effect's cleanup, then (RunEffect) the effect again
SeasonChange(s) ==
    /\ pc \in {"running", "idle"}
    /\ s # season
    /\ fuel >= EventCost
    /\ fuel' = fuel - EventCost
    /\ season' = s
    /\ Cleanup
    /\ pc' = "rendered"
    /\ hist' = Before("season")
    /\ UNCHANGED <<canvasOk, innerWidth, innerHeight, canvas, ctx, live,
                   nextRafId, rng>>

\* the host removes the component
Unmount ==
    /\ pc \in {"running", "idle"}
    /\ fuel >= EventCost
    /\ fuel' = fuel - EventCost
    /\ Cleanup
    /\ pc' = "unmounted"
    /\ hist' = Before("unmount")
    /\ UNCHANGED <<season, canvasOk, innerWidth, innerHeight, canvas, ctx,
                   live, nextRafId, rng>>

Next ==
    \/ RunEffect
    \/ AnimateFirst
    \/ \E cb \in raf : Frame(cb)
    \/ \E d \in Dims : WindowResize(d[1], d[2])
    \/ \E s \in Season : SeasonChange(s)
    \/ Unmount

Spec == Init /\ [][Next]_vars

----------------------------------------------------------------------------
(* Properties *)

\* the closure of the mounted effect
Cur == effects[live]

\* the target count of a season as the specification's policy table gives it
Target(s) ==
    CASE s = Spring -> 150 [] s = Summer -> 100
      [] s = Autumn -> 50  [] s = Winter -> 150

Min(a, b) == IF a < b THEN a ELSE b

\* indices of the particles of the given type in closure c that the next
\* frame's position update takes below the bottom edge
Crossing(c, type) ==
    {i \in 1..Len(c.particles) :
        /\ c.particles[i].type = type
        /\ c.particles[i].y + c.particles[i].vy > c.height * 100}

\* indices of the sparks in closure c whose life the next frame ends
Expired(c) ==
    {i \in 1..Len(c.particles) :
        /\ c.particles[i].type = "firework"
        /\ c.particles[i].life - 3 <= 0}

\* where the particle of index i is after the frame has spliced the expired
\* sparks out
Slot(c, i) == i - Cardinality({e \in Expired(c) : e < i})

NonFirework(c) ==
    {i \in 1..Len(c.particles) : c.particles[i].type # "firework"}

\* C1: right after the initial fill has (re)built the active set, its length
\* is the season's target count: 150 for Spring and Winter, 100 for Summer,
\* 50 for Autumn.
C1_FillLength ==
    pc = "filled" => Len(Cur.particles) = Target(season)

\* the fill of the second effect (after a season change) into Autumn
C1_Witness ==
    /\ pc = "filled" /\ live = 2 /\ season = Autumn
    /\ Len(Cur.particles) = 50

\* C2: within a season, after any frames and resizes, the number of
\* non-firework particles of the active set is the season's target count.
C2_BasePopulation ==
    Mounted => Cardinality(NonFirework(Cur)) = Target(season)

\* Summer, first effect, a resize behind it, a frame that changed the length
\* of the active set (sparks came or went) and sparks present
C2_Witness ==
    /\ pc = "running" /\ season = Summer /\ live = 1
    /\ fuel < Fuel - EventCost
    /\ hist.op = "animate" /\ hist.active # Len(Cur.particles)
    /\ Len(Cur.particles) > 100

\* C3: in a frame, every rain particle that its position update takes below
\* the bottom edge appends exactly one burst of 12 sparks to the active set
\* in that frame, and its slot holds a rain particle after the frame.
C3_RainBurst ==
    [][hist'.op = "animate" =>
        LET pre == effects[live]
            post == effects'[live]
            X == Crossing(pre, "rain")
            base == Len(pre.particles) - Cardinality(Expired(pre))
        IN  /\ Len(post.particles) = base + 12 * Cardinality(X)
            /\ \A k \in 1..Len(post.particles) :
                  (k > base) <=> /\ post.particles[k].type = "firework"
                                 /\ post.particles[k].life = 100
            /\ \A i \in X : post.particles[Slot(pre, i)].type = "rain"]_vars

\* a frame in which exactly one rain particle crossed: 12 more particles
C3_Witness ==
    /\ Mounted /\ season = Summer /\ hist.op = "animate"
    /\ Len(Cur.particles) = hist.active + 12
    /\ Cur.particles[Len(Cur.particles)].life = 100

\* C4: in Autumn a leaf that crosses the bottom edge adds one entry to the
\* accumulation buffer while the buffer holds fewer than 200, and none once it
\* holds 200, so the buffer never exceeds 200; the active set keeps its length
\* and the slot is reinitialized as a leaf.
C4_LeafAccumulation ==
    [][(hist'.op = "animate" /\ season = Autumn) =>
        LET pre == effects[live]
            post == effects'[live]
            X == Crossing(pre, "leaf")
        IN  /\ Len(post.landedParticles) =
                  Min(200, Len(pre.landedParticles) + Cardinality(X))
            /\ Len(post.landedParticles) <= 200
            /\ Len(post.particles) = Len(pre.particles)
            /\ \A i \in X : /\ post.particles[i].type = "leaf"
                            /\ post.particles[i].y <= 0]_vars

\* a frame that started with a full buffer in a window of height 0, where
\* every leaf crosses in every frame
C4_Witness ==
    /\ Mounted /\ season = Autumn /\ hist.op = "animate"
    /\ Cur.height = 0
    /\ hist.landed = 200 /\ Len(Cur.landedParticles) = 200

\* C5: every entry of the accumulation buffer has landed = true, vx = 0,
\* vy = 0 and kind leaf.
C5_LandedShape ==
    \A i \in DOMAIN effects :
        \A k \in 1..Len(effects[i].landedParticles) :
            LET e == effects[i].landedParticles[k]
            IN  /\ "landed" \in DOMAIN e /\ e.landed = TRUE
                /\ e.vx = 0 /\ e.vy = 0
                /\ e.type = "leaf"

C5_Witness ==
    Mounted /\ Len(Cur.landedParticles) >= 100

\* C6: after a resize event has been processed (the initial call included)
\* the accumulation buffer is empty, whatever it held before.
C6_ResizeClears ==
    /\ (Mounted /\ hist.op = "resize") => Len(Cur.landedParticles) = 0
    /\ pc = "filled" => Len(Cur.landedParticles) = 0

\* a resize that met a full buffer
C6_Witness ==
    /\ Mounted /\ hist.op = "resize" /\ hist.landed = 200
    /\ Len(Cur.landedParticles) = 0

IsSpark(p) == p.type = "firework"

\* the number of updates a spark of life 1.0 - 0.03 k has behind it
Updates(p) == (100 - p.life) \div 3

\* C7: a spark created with life 1.0 and decayed by 0.03 per frame is still in
\* the active set after its 33rd update and is removed, not recycled, by its
\* 34th: every frame keeps exactly the sparks with fewer than 33 updates
\* behind them, each one update older, and no spark ever has more than 33.
C7_SparkLifetime ==
    [][hist'.op = "animate" =>
        LET pre == effects[live]
            post == effects'[live]
            old == SelectSeq(pre.particles, IsSpark)
            kept == SelectSeq(old, LAMBDA p : Updates(p) < 33)
            now == SelectSeq(post.particles, IsSpark)
            aged == SelectSeq(now, LAMBDA p : p.life < 100)
        IN  /\ \A k \in 1..Len(now) :
                  /\ (100 - now[k].life) % 3 = 0
                  /\ Updates(now[k]) \in 0..33
            /\ Len(aged) = Len(kept)
            /\ \A k \in 1..Len(kept) : Updates(aged[k]) = Updates(kept[k]) + 1
            /\ Cardinality(NonFirework(post)) = Cardinality(NonFirework(pre))
            /\ Len(post.particles) =
                  Len(pre.particles) - (Len(old) - Len(kept))
                     + 12 * Cardinality(Crossing(pre, "rain"))]_vars

\* the sparks of closure c that the last frame appended
Fresh(c) ==
    {k \in 1..Len(c.particles) :
        IsSpark(c.particles[k]) /\ c.particles[k].life = 100}

\* a frame that removed a burst (the active set is shorter than its length
\* before the frame plus the sparks appended) while sparks with 33 updates
\* behind them are still there
C7_Witness ==
    /\ Mounted /\ hist.op = "animate"
    /\ hist.active + Cardinality(Fresh(Cur)) - Len(Cur.particles) >= 12
    /\ \E k \in 1..Len(Cur.particles) :
          IsSpark(Cur.particles[k]) /\ Cur.particles[k].life = 1

\* C8: after the fill and after every frame, every non-firework particle of
\* the active set has x within [-20, width + 20].
C8_XRange ==
    (Mounted /\ hist.op \in {"effect", "animate"}) =>
        \A i \in NonFirework(Cur) :
            /\ Cur.particles[i].x >= -2000
            /\ Cur.particles[i].x <= (Cur.width + 20) * 100

\* a frame that left a particle on one of the two wrap positions
C8_Witness ==
    /\ Mounted /\ hist.op = "animate"
    /\ \E i \in NonFirework(Cur) : Cur.particles[i].x = -2000
    /\ \E i \in NonFirework(Cur) : Cur.particles[i].x = (Cur.width + 20) * 100

\* the number of crossing rain particles the backward loop handles before i
Rank(c, i) == Cardinality({j \in Crossing(c, "rain") : j > i})

\* A frame's rain crossings: the burst of the rain particle of index i is at
\* (x, by), the buffer is unchanged and the slot holds a rain particle whose
\* y satisfies Above.
RainCrossing(pre, post, by, Above(_)) ==
    LET base == Len(pre.particles) - Cardinality(Expired(pre)) IN
    \A i \in Crossing(pre, "rain") :
          /\ post.landedParticles = pre.landedParticles
          /\ \A k \in 1..12 :
                LET spark == post.particles[base + 12 * Rank(pre, i) + k]
                IN  /\ spark.type = "firework"
                    /\ spark.x = pre.particles[i].x + pre.particles[i].vx
                    /\ spark.y = by
          /\ post.particles[Slot(pre, i)].type = "rain"
          /\ Above(post.particles[Slot(pre, i)].y)

\* C9 as claimed: the burst of a rain particle that crosses the bottom edge at
\* x starts at (x, height), the buffer is unchanged and the slot holds a fresh
\* rain particle with y < 0.
C9_BurstAtHeight ==
    [][hist'.op = "animate" =>
        RainCrossing(effects[live], effects'[live],
                     effects[live].height * 100, LAMBDA y : y < 0)]_vars

\* C9 as the code has it: the burst starts at (x, height - 2), the buffer is
\* unchanged and the slot holds a fresh rain particle with -height <= y <= 0,
\* y < 0 unless the height is 0.
C9_BurstAboveGround ==
    [][hist'.op = "animate" =>
        RainCrossing(effects[live], effects'[live],
                     (effects[live].height - 2) * 100,
                     LAMBDA y : /\ y >= 0 - effects[live].height * 100
                                /\ y <= 0
                                /\ (effects[live].height > 0 => y < 0))]_vars

\* a frame in the tall window in which two or more rain particles crossed
C9_Witness ==
    /\ Mounted /\ season = Summer /\ hist.op = "animate"
    /\ Cur.height = LargeHeight
    /\ Len(Cur.particles) >= hist.active + 24

\* C10: after the teardown on season change or unmount no frame callback is
\* left: every pending callback, every registered listener and every closure
\* still reachable belongs to the mounted effect, so no frame runs for a
\* torn-down one.
C10_NoFrameAfterTeardown ==
    /\ \A cb \in raf : cb.inst = live /\ pc = "running"
    /\ \A i \in listeners : i = live /\ Mounted
    /\ \A i \in DOMAIN effects : i = live /\ Mounted
    /\ Cardinality(raf) <= 1

\* an unmount of an effect that had a callback pending
C10_Witness ==
    /\ pc = "unmounted" /\ hist.op = "unmount" /\ hist.active > 0
    /\ nextRafId > 2 /\ raf = {}

\* the particle kind of a season as the specification's policy table gives it
Kind(s) ==
    CASE s = Spring -> "petal" [] s = Summer -> "rain"
      [] s = Autumn -> "leaf"  [] s = Winter -> "snow"

\* C11: after a season change the field is fully reset: the active set is
\* exactly the new season's target count of freshly built particles of the
\* new season's kind (no spark, nothing landed, inside the surface), the
\* accumulation buffer is empty and the old closure is gone.
C11_SeasonReset ==
    (pc = "filled" /\ live > 1) =>
        /\ DOMAIN effects = {live}
        /\ Cur.season = season
        /\ Len(Cur.particles) = Target(season)
        /\ Len(Cur.landedParticles) = 0
        /\ \A k \in 1..Len(Cur.particles) :
              LET p == Cur.particles[k]
              IN  /\ p.type = Kind(season)
                  /\ "life" \notin DOMAIN p /\ "landed" \notin DOMAIN p
                  /\ p.x >= 0 /\ p.x <= Cur.width * 100
                  /\ p.y >= 0 /\ p.y <= Cur.height * 100
                  /\ p.vy >= 100

\* the fill after a change away from a Summer whose active set held sparks
C11_Witness ==
    /\ pc = "filled" /\ live = 2 /\ hist.op = "effect"
    /\ hist.active > 100 /\ hist.active % 50 # 0
    /\ Len(Cur.particles) = Target(season)

\* C12: a resize event records the new width and height (closure and canvas)
\* and clears the accumulation buffer but leaves the active set as it was:
\* same length, same particles, same field values.
C12_ResizeKeepsParticles ==
    [][(hist'.op = "resize" /\ Mounted) =>
        /\ effects'[live].width = innerWidth'
        /\ effects'[live].height = innerHeight'
        /\ canvas' = <<innerWidth', innerHeight'>>
        /\ effects'[live].landedParticles = <<>>
        /\ effects'[live].particles = effects[live].particles
        /\ effects'[live].season = effects[live].season]_vars

\* a resize to the small window that met sparks in the active set and left a
\* rain particle of the wide window where it was, beyond the new right edge
C12_Witness ==
    /\ Mounted /\ hist.op = "resize" /\ season = Summer
    /\ Len(Cur.particles) = hist.active /\ hist.active > 100
    /\ Cur.width = SmallWidth /\ canvas = <<SmallWidth, SmallHeight>>
    /\ \E i \in NonFirework(Cur) : Cur.particles[i].x > (SmallWidth + 20) * 100

\* C13: in every reachable state every non-firework particle of the active
\* set has the kind of the current season (Spring petal, Summer rain, Autumn
\* leaf, Winter snow), after the fill and after any number of bottom-edge
\* recyclings; Summer recycling yields rain, never leaf.
C13_SeasonKind ==
    \A e \in DOMAIN effects :
        /\ effects[e].season = season
        /\ \A i \in NonFirework(effects[e]) :
              effects[e].particles[i].type = Kind(season)

\* a frame of Winter after which a recycled particle (y < 0: the fill puts
\* every particle at y >= 0 and falling only increases y) is in the set
C13_Witness ==
    /\ Mounted /\ season = Winter /\ hist.op = "animate"
    /\ \E i \in NonFirework(Cur) :
          Cur.particles[i].y < 0 /\ Cur.particles[i].type = "snow"

\* C14: the accumulation buffer can be non-empty only in Autumn: in Spring,
\* Summer and Winter its length is 0 in every reachable state, whatever
\* crosses the bottom edge.
C14_BufferOnlyAutumn ==
    season # Autumn =>
        \A e \in DOMAIN effects : Len(effects[e].landedParticles) = 0

\* Spring after a season change, a frame behind it that recycled a petal
\* (y < 0), the buffer empty
C14_Witness ==
    /\ Mounted /\ season = Spring /\ live = 2 /\ hist.op = "animate"
    /\ \E i \in NonFirework(Cur) : Cur.particles[i].y < 0
    /\ Len(Cur.landedParticles) = 0

\* C15: when the drawable surface is missing (no canvas element or no 2D
\* context) no frame is ever processed: no particles are built, no closure
\* is kept, no resize listener is installed, no frame callback is scheduled,
\* no random number is drawn and the canvas is never written.
C15_MissingSurface ==
    ~canvasOk =>
        /\ pc \in {"rendered", "idle", "unmounted"}
        /\ effects = <<>> /\ live = 0
        /\ listeners = {}
        /\ raf = {} /\ nextRafId = 1
        /\ rng \in Seeds
        /\ canvas = <<300, 150>>
        /\ hist.op # "animate"

\* without a surface: the effect has run twice (a season change between the
\* two runs) and returned early both times
C15_Witness ==
    /\ ~canvasOk /\ pc = "idle" /\ hist.op = "effect"
    /\ fuel = Fuel - EventCost

\* closure c holds a fresh population for season s: the target count of
\* particles of the season's kind, none a spark, all inside the surface
FreshPopulation(c, s) ==
    /\ Len(c.particles) = Target(s)
    /\ \A k \in 1..Len(c.particles) :
          LET p == c.particles[k]
          IN  /\ p.type = Kind(s) /\ "life" \notin DOMAIN p
              /\ p.x >= 0 /\ p.x <= c.width * 100
              /\ p.y >= 0 /\ p.y <= c.height * 100

\* C16 as claimed: when a resize is processed the active set is rebuilt: the
\* old particles are gone and a fresh population for the current season is in
\* their place.
C16_ResizeRebuilds ==
    [][(hist'.op = "resize" /\ Mounted) =>
        /\ FreshPopulation(effects'[live], season)
        /\ \A k \in 1..Len(effects[live].particles) :
              \A j \in 1..Len(effects'[live].particles) :
                  effects'[live].particles[j] # effects[live].particles[k]]_vars

\* C16 as the code has it: a resize does not rebuild the active set.  The
\* only steps that change a closure's active set are frames, and a fresh
\* population appears only when the effect runs (mount or season change).
C16_RebuildOnlyByEffect ==
    [][/\ \A e \in DOMAIN effects \cap DOMAIN effects' :
             effects'[e].particles # effects[e].particles
                 => hist'.op = "animate"
       /\ live' # live =>
             /\ hist'.op = "effect" /\ pc = "rendered"
             /\ FreshPopulation(effects'[live'], season)
       /\ (hist'.op = "resize" /\ Mounted) =>
             Len(effects'[live].particles) = hist'.active]_vars

\* a resize in Spring or Winter that left a population that is not a fresh
\* one for the new surface
C16_Witness ==
    /\ Mounted /\ hist.op = "resize" /\ season \in {Spring, Winter}
    /\ Len(Cur.particles) = 150
    /\ ~FreshPopulation(Cur, season)

\* the non-firework particles of closure c that the next frame moves without
\* taking them below the bottom edge: the ones its wrap step applies to
Staying(c) ==
    {i \in NonFirework(c) :
        c.particles[i].y + c.particles[i].vy <= c.height * 100}

\* A frame's wrap step: Wrapped(x, x1, width) holds of the x every staying
\* particle has before the wrap step (after the position update and the
\* sway) and the x1 it has after the frame.
WrapStep(pre, post, Wrapped(_, _, _)) ==
    \A i \in Staying(pre) :
        Wrapped(Fall(pre.particles[i], pre.season).x,
                post.particles[Slot(pre, i)].x, pre.width * 100)

\* C17 as claimed: in one frame a non-firework particle whose x is outside
\* [0, width) before the wrap step is within [0, width) after it.
C17_WrapIntoSurface ==
    [][hist'.op = "animate" =>
        WrapStep(effects[live], effects'[live],
                 LAMBDA x, x1, w : (x < 0 \/ x >= w) => (x1 >= 0 /\ x1 < w))]_vars

\* C17 as the code has it: in one frame a non-firework particle whose x is
\* above width + 20 before the wrap step is set to -20, one whose x is below
\* -20 is set to width + 20, and any other x ([-20, 0) and [width, width + 20]
\* included) is left as it is; so x is within [-20, width + 20] after the
\* step, by at most one assignment.
C17_WrapToMargin ==
    [][hist'.op = "animate" =>
        WrapStep(effects[live], effects'[live],
                 LAMBDA x, x1, w :
                    /\ x > w + 2000 => x1 = -2000
                    /\ x < -2000 => x1 = w + 2000
                    /\ (x >= -2000 /\ x <= w + 2000) => x1 = x
                    /\ x1 >= -2000 /\ x1 <= w + 2000)]_vars

\* a frame that wrapped one particle to the left margin and left another
\* inside the left margin, outside [0, width), where it was
C17_Witness ==
    /\ Mounted /\ hist.op = "animate"
    /\ \E i \in NonFirework(Cur) : Cur.particles[i].x = -2000
    /\ \E i \in NonFirework(Cur) :
          Cur.particles[i].x > -2000 /\ Cur.particles[i].x < 0
                                    /\ Cur.particles[i].y > 0

\* C18: in every reachable state a particle, in the active set or in the
\* accumulation buffer, has life defined if and only if its kind is firework.
C18_LifeIffFirework ==
    \A e \in DOMAIN effects :
        /\ \A k \in 1..Len(effects[e].particles) :
              ("life" \in DOMAIN effects[e].particles[k])
                  <=> effects[e].particles[k].type = "firework"
        /\ \A k \in 1..Len(effects[e].landedParticles) :
              /\ "life" \notin DOMAIN effects[e].landedParticles[k]
              /\ effects[e].landedParticles[k].type # "firework"

\* Summer with a spark past half of its life, a spark just pushed and a rain
\* particle that was recycled
C18_Witness ==
    /\ Mounted /\ season = Summer
    /\ \E k \in 1..Len(Cur.particles) :
          IsSpark(Cur.particles[k]) /\ Cur.particles[k].life < 50
    /\ Fresh(Cur) # {}
    /\ \E i \in NonFirework(Cur) : Cur.particles[i].y < 0

Tumbles(p) == "rotation" \in DOMAIN p \/ "rotationSpeed" \in DOMAIN p

\* C19: in every reachable state rotation and rotationSpeed are defined only
\* on petal and leaf particles: rain, snow and firework particles never have
\* a rotation, neither from their construction nor from any frame.
C19_RotationOnlyTumbling ==
    \A e \in DOMAIN effects :
        /\ \A k \in 1..Len(effects[e].particles) :
              Tumbles(effects[e].particles[k])
                  => effects[e].particles[k].type \in {"petal", "leaf"}
        /\ \A k \in 1..Len(effects[e].landedParticles) :
              Tumbles(effects[e].landedParticles[k])
                  => effects[e].landedParticles[k].type \in {"petal", "leaf"}

\* Winter after a change from another season and four frames or more, a
\* recycled snow particle among the ones that fell all the time
C19_Witness ==
    /\ Mounted /\ season = Winter /\ live = 2 /\ hist.op = "animate"
    /\ fuel <= Fuel - EventCost - 4
    /\ \E i \in NonFirework(Cur) : Cur.particles[i].y < 0
    /\ \E i \in NonFirework(Cur) : Cur.particles[i].y > 0
    /\ \A k \in 1..Len(Cur.particles) : ~Tumbles(Cur.particles[k])

\* C20 as claimed: width and height are clamped to a minimum of 1 before use:
\* the dimensions the factory and the loop use are at least 1, also after a
\* resize to zero width or zero height.
C20_ClampedDimensions ==
    \A e \in DOMAIN effects : effects[e].width >= 1 /\ effects[e].height >= 1

\* C20 as the code has it: width and height are used as the window reports
\* them, zero included.  They are only multiplied, subtracted and compared,
\* so every position the factory computes is a number within the surface:
\* 0 <= x <= width and -height <= y <= 0 for a recycled particle,
\* 0 <= y <= height for a filled one; x = 0 and y = 0 in a 0 x 0 window.
C20_DimensionsAsReported ==
    [][/\ \A e \in DOMAIN effects' :
             /\ effects'[e].width = innerWidth'
             /\ effects'[e].height = innerHeight'
       /\ hist'.op = "animate" =>
             \A i \in NonFirework(effects[live]) \ Staying(effects[live]) :
                 LET p == effects'[live].particles[Slot(effects[live], i)]
                 IN  /\ p.x >= 0 /\ p.x <= innerWidth * 100
                     /\ p.y <= 0 /\ p.y >= 0 - innerHeight * 100
       /\ pc' = "filled" =>
             \A k \in 1..Len(effects'[live'].particles) :
                 LET p == effects'[live'].particles[k]
                 IN  /\ p.x >= 0 /\ p.x <= innerWidth * 100
                     /\ p.y >= 0 /\ p.y <= innerHeight * 100]_vars

\* a frame in a window resized to 0 x 0: every particle that is not a spark
\* was recycled by it or an earlier frame and sits at (0, 0)
C20_Witness ==
    /\ Mounted /\ hist.op = "animate" /\ live = 1
    /\ fuel < Fuel - EventCost
    /\ Cur.width = 0 /\ Cur.height = 0
    /\ \A i \in NonFirework(Cur) :
          Cur.particles[i].x = 0 /\ Cur.particles[i].y = 0

\* the call that a frame started in closure c makes for the particle of index
\* i of its active set, in the log of that frame's calls
DrawOf(log, c, i) ==
    log[1 + Len(c.landedParticles) + (Len(c.particles) - i + 1)]

\* C21 as claimed: the bottom-edge check and its resolution happen before the
\* particle is drawn, so no particle of the active set other than a spark is
\* ever drawn at a crossed position (y > height).
C21_NeverDrawnBelow ==
    (Mounted /\ hist.op = "animate") =>
        \A k \in 1..Len(ctx) :
            (ctx[k].from = "active" /\ ctx[k].shape # "firework")
                => ctx[k].y <= Cur.height * 100

\* C21 as the code has it: each particle other than a spark is drawn right
\* after its position update, before the bottom-edge check and before the
\* wrap: one that crossed is drawn once at its crossed position (y > height),
\* and the particle that takes its slot is not drawn in that frame.
C21_DrawnBeforeCheck ==
    [][hist'.op = "animate" =>
        LET pre == effects[live]
        IN  /\ Len(ctx') = 1 + Len(pre.landedParticles) + Len(pre.particles)
            /\ \A i \in NonFirework(pre) :
                  LET q == Fall(pre.particles[i], pre.season)
                  IN  /\ DrawOf(ctx', pre, i) = Draw(q, "active")
                      /\ i \notin Staying(pre) =>
                            DrawOf(ctx', pre, i).y > pre.height * 100]_vars

\* an Autumn frame in the small window that drew a leaf below the bottom edge
C21_Witness ==
    /\ Mounted /\ hist.op = "animate" /\ season = Autumn
    /\ Cur.height = SmallHeight
    /\ \E k \in 1..Len(ctx) :
          /\ ctx[k].from = "active" /\ ctx[k].shape = "leaf"
          /\ ctx[k].y > Cur.height * 100

\* C22: in every frame the calls are ordered: the surface is cleared first,
\* then every entry the accumulation buffer held at the start of the frame is
\* drawn in insertion order, and only then the particles of the active set;
\* nothing else clears and no active particle precedes a buffer entry.
C22_DrawOrder ==
    [][hist'.op = "animate" =>
        LET pre == effects[live]
            n == Len(pre.landedParticles)
        IN  /\ ctx'[1] = ClearRect(pre.width, pre.height)
            /\ \A k \in 1..n : ctx'[1 + k] = Draw(pre.landedParticles[k], "landed")
            /\ \A k \in 2..Len(ctx') :
                  /\ ctx'[k].shape # "clearRect"
                  /\ (k > 1 + n) <=> ctx'[k].from = "active"]_vars

\* an Autumn frame that started with ten or more leaves on the ground, the
\* first two of them at different places
C22_Witness ==
    /\ Mounted /\ hist.op = "animate" /\ season = Autumn
    /\ hist.landed >= 10
    /\ ctx[2].from = "landed" /\ ctx[3].from = "landed" /\ ctx[2] # ctx[3]
    /\ ctx[Len(ctx)].from = "active"

\* A fill or a frame: Above(y, h) holds of the y of every particle a frame
\* put into the slot of one that crossed the bottom edge, Inside(y, h) of the
\* y of every particle of a fill, h the height in hundredths.
StartY(Above(_, _), Inside(_, _)) ==
    /\ hist'.op = "animate" =>
          \A i \in NonFirework(effects[live]) \ Staying(effects[live]) :
              Above(effects'[live].particles[Slot(effects[live], i)].y,
                    effects[live].height * 100)
    /\ pc' = "filled" =>
          \A k \in 1..Len(effects'[live'].particles) :
              Inside(effects'[live'].particles[k].y, effects'[live'].height * 100)

\* C23 as claimed: every particle produced by bottom-edge recycling starts
\* with -height <= y < 0, every particle of the initial fill with
\* 0 <= y < height.
C23_StartStrictly ==
    [][StartY(LAMBDA y, h : 0 - h <= y /\ y < 0,
              LAMBDA y, h : 0 <= y /\ y < h)]_vars

\* C23 as the code has it: in a surface of height > 0 a recycled particle
\* starts with -height <= y < 0 and a filled one with 0 <= y < height; in a
\* surface of height 0 both start at y = 0.
C23_StartByHeight ==
    [][StartY(LAMBDA y, h : IF h > 0 THEN 0 - h <= y /\ y < 0 ELSE y = 0,
              LAMBDA y, h : IF h > 0 THEN 0 <= y /\ y < h ELSE y = 0)]_vars

\* a frame in the tall window after which a recycled particle is above the
\* surface while particles of the fill are still falling inside it
C23_Witness ==
    /\ Mounted /\ hist.op = "animate" /\ Cur.height = LargeHeight
    /\ \E i \in NonFirework(Cur) :
          Cur.particles[i].y < 0 /\ Cur.particles[i].y > 0 - LargeHeight * 100
    /\ \E i \in NonFirework(Cur) : Cur.particles[i].y > 0

\* C24: a spark is not subject to bottom-edge handling or to the wrap: in a
\* frame every spark that does not expire moves by its velocity, gains 0.1 of
\* vertical speed and loses 0.03 of life, wherever it is (below the bottom
\* edge and beyond the wrap margins included); it is not reinitialized, the
\* buffer receives nothing from it and bursts come from rain only, so it
\* leaves the active set only through life <= 0.
C24_SparkIgnoresEdges ==
    [][hist'.op = "animate" =>
        LET pre == effects[live]
            post == effects'[live]
            sparks == {i \in 1..Len(pre.particles) : IsSpark(pre.particles[i])}
        IN  /\ \A i \in sparks \ Expired(pre) :
                  LET p == pre.particles[i]
                  IN  post.particles[Slot(pre, i)] =
                          [p EXCEPT !.x = p.x + p.vx, !.y = p.y + p.vy,
                                    !.vy = p.vy + 10, !.life = p.life - 3]
            /\ sparks # {} => post.landedParticles = pre.landedParticles
            /\ Len(post.particles) =
                  Len(pre.particles) - Cardinality(Expired(pre))
                     + 12 * Cardinality(Crossing(pre, "rain"))]_vars

\* a frame after which a spark below the bottom edge and a spark beyond a
\* wrap margin, both with updates behind them, are still in the active set
C24_Witness ==
    /\ Mounted /\ hist.op = "animate"
    /\ \E k \in 1..Len(Cur.particles) :
          /\ IsSpark(Cur.particles[k]) /\ Cur.particles[k].life <= 70
          /\ Cur.particles[k].y > Cur.height * 100
    /\ \E k \in 1..Len(Cur.particles) :
          /\ IsSpark(Cur.particles[k]) /\ Cur.particles[k].life < 100
          /\ \/ Cur.particles[k].x < -2000
             \/ Cur.particles[k].x > (Cur.width + 20) * 100

\* C25: between two reset events (resize, season change) the accumulation
\* buffer is append-only: no step other than a reset shortens it, and a frame
\* leaves every entry it held where it was and as it was, adding new entries
\* only at the end.
C25_BufferAppendOnly ==
    [][\A e \in DOMAIN effects \cap DOMAIN effects' :
          hist'.op # "resize" =>
              /\ Len(effects'[e].landedParticles)
                     >= Len(effects[e].landedParticles)
              /\ SubSeq(effects'[e].landedParticles, 1,
                        Len(effects[e].landedParticles))
                     = effects[e].landedParticles]_vars

\* a frame that added three or more leaves to a buffer that already held some
C25_Witness ==
    /\ Mounted /\ hist.op = "animate" /\ season = Autumn
    /\ hist.landed >= 5
    /\ Len(Cur.landedParticles) >= hist.landed + 3

\* every leaf of the active sets and the buffers
Leaves ==
    UNION {{effects[e].particles[k] : k \in NonFirework(effects[e])}
              \cup {effects[e].landedParticles[k] :
                        k \in 1..Len(effects[e].landedParticles)} :
           e \in DOMAIN effects}

\* The leaves the factory has returned keep vx, vy, size and rotationSpeed
\* for as long as they fall (a landed copy has vx = vy = 0), and the leaves
\* of a fill still have the factory's rotation: they are within the factory's
\* ranges, the rotation speed within [-r, r).
LeafRanges(r) ==
    season = Autumn =>
        /\ \A p \in Leaves :
              /\ p.type = "leaf"
              /\ "landed" \notin DOMAIN p =>
                    /\ p.vx >= -300 /\ p.vx < 300
                    /\ p.vy >= 100 /\ p.vy < 400
              /\ p.size >= 800 /\ p.size < 1400
              /\ p.rotationSpeed >= 0 - r /\ p.rotationSpeed < r
        /\ pc = "filled" =>
              \A p \in Leaves : p.rotation >= 0 /\ p.rotation < 36000

\* C26 as claimed: every leaf the factory returns has vx in [-3,3], vy in
\* [1,4], size in [8,14], rotation in [0,360) and rotationSpeed in the
\* petal's range [-2,2].
C26_LeafAsPetal == LeafRanges(200)

\* C26 as the code has it: the same with rotationSpeed in [-3,3).
C26_LeafRanges == LeafRanges(300)

\* an Autumn fill with a leaf that turns faster than any petal, in each
\* direction, and a leaf within the petal's range
C26_Witness ==
    /\ pc = "filled" /\ season = Autumn
    /\ \E p \in Leaves : p.rotationSpeed > 200
    /\ \E p \in Leaves : p.rotationSpeed < -200
    /\ \E p \in Leaves : p.rotationSpeed > -200 /\ p.rotationSpeed < 200

\* particle p after one position update: a spark moves by its velocity, any
\* other particle falls and sways
Moved(p, s) ==
    IF IsSpark(p) THEN [p EXCEPT !.x = p.x + p.vx, !.y = p.y + p.vy]
    ELSE Fall(p, s)

\* C27: although the loop runs backwards while it splices spent sparks out
\* and pushes new bursts, every particle the active set holds at the start
\* of a frame is updated exactly once in that frame, from the last index to
\* the first (one drawing each, at the position one update gives; a kept
\* spark one decay older; a particle that stays one fall further), and the
\* sparks pushed during the frame are neither updated nor drawn in it.
C27_UpdatedOnce ==
    [][hist'.op = "animate" =>
        LET pre == effects[live]
            post == effects'[live]
            n == Len(pre.particles)
            base == n - Cardinality(Expired(pre))
        IN  /\ Len(ctx') = 1 + Len(pre.landedParticles) + n
            /\ \A i \in 1..n :
                  /\ DrawOf(ctx', pre, i) =
                        Draw(Moved(pre.particles[i], pre.season), "active")
                  /\ (i \in Staying(pre)) =>
                        post.particles[Slot(pre, i)] =
                            WrapX(Fall(pre.particles[i], pre.season), pre.width)
                  /\ (IsSpark(pre.particles[i]) /\ i \notin Expired(pre)) =>
                        /\ post.particles[Slot(pre, i)].life
                               = pre.particles[i].life - 3
                        /\ post.particles[Slot(pre, i)].y
                               = pre.particles[i].y + pre.particles[i].vy
            /\ \A k \in (base + 1)..Len(post.particles) :
                  /\ IsSpark(post.particles[k])
                  /\ post.particles[k].life = 100
                  /\ post.particles[k].y = (pre.height - 2) * 100]_vars

\* a frame that spliced a burst out and pushed another one: the active set
\* is shorter than its length before the frame plus the sparks pushed
C27_Witness ==
    /\ Mounted /\ hist.op = "animate" /\ season = Summer
    /\ Fresh(Cur) # {}
    /\ hist.active + Cardinality(Fresh(Cur)) - Len(Cur.particles) >= 12
    /\ Len(ctx) = 1 + hist.active

\* C28: for a mounted canvas, across season changes, frames and resizes, at
\* most one animation loop is live: at most one frame callback is pending,
\* it is the latest request of the mounted effect, none is pending from the
\* cleanup of the old effect until the new effect's first animate() has
\* requested one, and a frame changes the mounted effect's closure only.
C28_OneLoop ==
    [][/\ Cardinality(raf') <= 1
       /\ \A cb \in raf' :
             /\ cb.inst = live' /\ pc' = "running"
             /\ cb.id = effects'[live'].animationFrameId
             /\ cb.id = nextRafId' - 1
       /\ pc' \in {"rendered", "filled"} => raf' = {}
       /\ hist'.op = "animate" =>
             /\ DOMAIN effects = {live} /\ DOMAIN effects' = {live}
             /\ raf \subseteq {[id |-> nextRafId - 1, inst |-> live]}]_vars

\* the loop of a second effect is running, a loop of the first effect having
\* run two frames or more before the season changed
C28_Witness ==
    /\ pc = "running" /\ live = 2 /\ hist.op = "animate"
    /\ Cardinality(raf) = 1
    /\ nextRafId >= 5
    /\ fuel <= Fuel - EventCost - 4

\* the indices of the sparks of closure c that have life l
SparksOfLife(c, l) ==
    {k \in 1..Len(c.particles) :
        IsSpark(c.particles[k]) /\ c.particles[k].life = l}

\* C29: at every frame boundary the number of sparks in the active set is a
\* multiple of 12: the sparks of one burst have equal life and stand together
\* (twelve consecutive indices, starting a multiple of 12 above the season's
\* base population), so a burst is in the set whole or not at all.
C29_WholeBursts ==
    \A e \in DOMAIN effects :
        LET c == effects[e]
            base == Cardinality(NonFirework(c))
        IN  /\ (Len(c.particles) - base) % 12 = 0
            /\ \A l \in 0..100 : Cardinality(SparksOfLife(c, l)) % 12 = 0
            /\ \A k \in 1..Len(c.particles) :
                  IsSpark(c.particles[k]) =>
                      /\ k > base
                      /\ c.particles[k].life =
                            c.particles[k - ((k - base - 1) % 12)].life

\* a frame that removed a burst, with bursts of three or more ages left
C29_Witness ==
    /\ Mounted /\ hist.op = "animate"
    /\ hist.active + Cardinality(Fresh(Cur)) - Len(Cur.particles) >= 12
    /\ Cardinality({l \in 1..100 : SparksOfLife(Cur, l) # {}}) >= 3

\* C30: sparks exist only in Summer: in Spring, Autumn and Winter the active
\* set never holds a spark, so its length is exactly the season's target
\* count in every reachable state.
C30_SparksOnlySummer ==
    season # Summer =>
        \A e \in DOMAIN effects :
            /\ \A k \in 1..Len(effects[e].particles) :
                  ~IsSpark(effects[e].particles[k])
            /\ Len(effects[e].particles) = Target(season)

\* Autumn, three frames or more behind, leaves that crossed the bottom edge on
\* the ground, and still 50 particles
C30_Witness ==
    /\ Mounted /\ season = Autumn /\ hist.op = "animate"
    /\ fuel <= Fuel - 3
    /\ Len(Cur.landedParticles) >= 3
    /\ Len(Cur.particles) = 50

====
